---- MODULE Spec2Model ----
(***************************************************************************)
(* A model of app.py, the interview chatbot: the validators, the question  *)
(* extraction of generate_interview_questions, and the chat input handler  *)
(* that drives the session state (candidate, questions, answers, q_index,  *)
(* messages), one action per branch of the handler.                        *)
(*                                                                         *)
(* A Python str is a sequence of one-character strings, so that strip,     *)
(* split and the regular expressions are computed and not assumed.  A      *)
(* character outside ASCII is written by its code point ("U+0663").        *)
(***************************************************************************)
EXTENDS Integers, Sequences, FiniteSets, TLC

VARIABLES candidate, questions, answers, q_index, messages, errors, excel, llm_calls

vars == <<candidate, questions, answers, q_index, messages, errors, excel, llm_calls>>

(***************************************************************************)
(* Bounds of the model.                                                    *)
(***************************************************************************)
\* rejected inputs (invalid name, email, phone, experience) in one session
MaxRejects == 1
\* messages in the log before a turn is taken
MaxMessages == 28
\* error displays (st.error and uncaught exceptions) before a failing turn is taken
MaxErrors == 3
\* lines of a raw completion in the extraction specification
MaxLines == 6

(***************************************************************************)
(* Characters and the str methods the program uses.                        *)
(***************************************************************************)
UpperCase == {"A","B","C","D","E","F","G","H","I","J","K","L","M",
              "N","O","P","Q","R","S","T","U","V","W","X","Y","Z"}

LowerCase == {"a","b","c","d","e","f","g","h","i","j","k","l","m",
              "n","o","p","q","r","s","t","u","v","w","x","y","z"}

AsciiDigits == <<"0","1","2","3","4","5","6","7","8","9">>

\* ARABIC-INDIC DIGIT THREE: a decimal digit for \d, str.isdigit and int()
ArabicIndicThree == "U+0663"

\* what \d matches in a str pattern (Unicode decimal digits)
IsDigit(c) == (\E i \in 1..10 : AsciiDigits[i] = c) \/ c = ArabicIndicThree

DigitValue(c) == IF c = ArabicIndicThree THEN 3 ELSE (CHOOSE i \in 1..10 : AsciiDigits[i] = c) - 1

\* what \s matches and what str.strip() and str.split() treat as whitespace
IsSpace(c) == c \in {" ", "\t", "\n", "\r"}

\* what \w matches
IsWord(c) == c \in UpperCase \/ c \in LowerCase \/ IsDigit(c) \/ c = "_"

SetMin(S) == CHOOSE x \in S : \A y \in S : x <= y

\* the first index from i on that holds no whitespace (Len(s) + 1: there is none)
RECURSIVE SkipSpaces(_, _)
SkipSpaces(s, i) ==
    IF i > Len(s) \/ ~IsSpace(s[i]) THEN i ELSE SkipSpaces(s, i + 1)

\* the last index up to n that holds no whitespace (0: there is none)
RECURSIVE SkipSpacesBack(_, _)
SkipSpacesBack(s, n) ==
    IF n < 1 \/ ~IsSpace(s[n]) THEN n ELSE SkipSpacesBack(s, n - 1)

\* str.strip()
Strip(s) == SubSeq(s, SkipSpaces(s, 1), SkipSpacesBack(s, Len(s)))

\* the index of the first sep of s from index start on, 0 when there is none
NextSep(s, sep, start) ==
    LET at == {i \in start..Len(s) : s[i] = sep}
    IN  IF at = {} THEN 0 ELSE SetMin(at)

\* the pieces of s from index start on, the next separator being at index at
RECURSIVE SplitLoop(_, _, _, _)
SplitLoop(s, sep, start, at) ==
    IF at = 0 THEN <<SubSeq(s, start, Len(s))>>
    ELSE <<SubSeq(s, start, at - 1)>> \o SplitLoop(s, sep, at + 1, NextSep(s, sep, at + 1))

\* str.split(sep) for a one-character separator: always at least one piece
Split(s, sep) == SplitLoop(s, sep, 1, NextSep(s, sep, 1))

\* len(str.split()): the number of maximal runs of non-whitespace
WordCount(s) ==
    Cardinality({i \in 1..Len(s) : ~IsSpace(s[i]) /\ (i = 1 \/ IsSpace(s[i - 1]))})

\* the "$" of a pattern without re.MULTILINE: the end, or just before a final newline
BeforeDollar(s) ==
    IF s # <<>> /\ s[Len(s)] = "\n" THEN {s, SubSeq(s, 1, Len(s) - 1)} ELSE {s}

(***************************************************************************)
(* Validators.                                                             *)
(***************************************************************************)
\* re.match(r"^[A-Za-z ]+$", name) and len(name.strip()) > 1
valid_name(name) ==
    /\ \E t \in BeforeDollar(name) :
          /\ t # <<>>
          /\ \A i \in 1..Len(t) : t[i] \in UpperCase \/ t[i] \in LowerCase \/ t[i] = " "
    /\ Len(Strip(name)) > 1

\* re.match(r"^[\w\.-]+@[\w\.-]+\.\w+$", email)
valid_email(email) ==
    \E t \in BeforeDollar(email) :
      \E a \in 1..Len(t), d \in 1..Len(t) :
        /\ t[a] = "@" /\ t[d] = "."
        /\ 1 < a /\ a + 1 < d /\ d < Len(t)
        /\ \A i \in 1..(a - 1) : IsWord(t[i]) \/ t[i] \in {".", "-"}
        /\ \A i \in (a + 1)..(d - 1) : IsWord(t[i]) \/ t[i] \in {".", "-"}
        /\ \A i \in (d + 1)..Len(t) : IsWord(t[i])

PhoneDigits == 9

\* re.match(r"^\d{9}$", phone)
valid_phone(phone) ==
    \E t \in BeforeDollar(phone) :
        Len(t) = PhoneDigits /\ \A i \in 1..Len(t) : IsDigit(t[i])

\* the text int() reads, after the surrounding whitespace and the sign
IntBody(s) ==
    LET t == Strip(s)
    IN  IF t # <<>> /\ t[1] \in {"+", "-"} THEN Tail(t) ELSE t

\* int(s) does not raise ValueError: digits, single underscores between them
IntParses(s) ==
    LET b == IntBody(s)
    IN  /\ b # <<>>
        /\ \A i \in 1..Len(b) : IsDigit(b[i]) \/ b[i] = "_"
        /\ IsDigit(b[1]) /\ IsDigit(b[Len(b)])
        /\ \A i \in 1..(Len(b) - 1) : ~(b[i] = "_" /\ b[i + 1] = "_")

RECURSIVE DigitsValue(_)
DigitsValue(b) ==
    IF b = <<>> THEN 0
    ELSE LET front == SubSeq(b, 1, Len(b) - 1)
             last == b[Len(b)]
         IN  IF last = "_" THEN DigitsValue(front)
             ELSE 10 * DigitsValue(front) + DigitValue(last)

\* int(s), where it parses
IntValue(s) ==
    LET t == Strip(s)
        v == DigitsValue(IntBody(s))
    IN  IF t[1] = "-" THEN 0 - v ELSE v

MinYears == 0

MaxYears == 50

\* a variant without the lower limit
valid_experience_open(exp) ==
    IF IntParses(exp)
    THEN LET years == IntValue(exp) IN years <= MaxYears
    ELSE FALSE

valid_experience(exp) ==
    IF IntParses(exp)
    THEN LET years == IntValue(exp) IN MinYears <= years /\ years <= MaxYears
    ELSE FALSE

(***************************************************************************)
(* Question quality validator.                                             *)
(***************************************************************************)
MinQuestionLen == 10

MinQuestionWords == 4

\* a variant that asks for more than MinQuestionLen characters and does not count the words
is_valid_question_loose(question) ==
    LET q == Strip(question)
    IN  IF Len(q) <= MinQuestionLen THEN FALSE
        ELSE IF q[Len(q)] # "?" THEN FALSE
        ELSE TRUE

is_valid_question(question) ==
    LET q == Strip(question)
    IN  IF Len(q) < MinQuestionLen THEN FALSE
        ELSE IF q[Len(q)] # "?" THEN FALSE
        ELSE IF WordCount(q) < MinQuestionWords THEN FALSE
        ELSE TRUE

(***************************************************************************)
(* Python values of the session state.                                     *)
(***************************************************************************)
\* st.session_state.questions holds a list, or None after a failed generation
PyNone == [isNone |-> TRUE, items |-> <<>>]

PyList(s) == [isNone |-> FALSE, items |-> s]

\* s[:n]
Take(s, n) == SubSeq(s, 1, IF Len(s) < n THEN Len(s) ELSE n)

\* str(n) and f"{n}" of an int
RECURSIVE IntToStr(_)
IntToStr(n) ==
    IF n < 0 THEN <<"-">> \o IntToStr(0 - n)
    ELSE IF n < 10 THEN <<AsciiDigits[n + 1]>>
    ELSE IntToStr(n \div 10) \o <<AsciiDigits[(n % 10) + 1]>>

(***************************************************************************)
(* generate_interview_questions.  The model invocation is the environment: *)
(* llm_outcome is either [kind |-> "raise"], the call raising, or          *)
(* [kind |-> "text", text |-> s], the completion response["choices"][0]    *)
(* ["text"].                                                               *)
(***************************************************************************)
\* the number of digits of line from index i on
RECURSIVE DigitRun(_, _)
DigitRun(line, i) ==
    IF i > Len(line) \/ ~IsDigit(line[i]) THEN 0 ELSE 1 + DigitRun(line, i + 1)

\* the length of the match of r'^\d+\.' at the start of line, 0 when there is none
NumberPrefixLen(line) ==
    LET d == DigitRun(line, 1)
    IN  IF d >= 1 /\ d < Len(line) /\ line[d + 1] = "." THEN d + 1 ELSE 0

\* re.sub(r'^\d+\.\s*', '', line).strip(), for a line that has the prefix
StripNumberPrefix(line) ==
    Strip(SubSeq(line, NumberPrefixLen(line) + 1, Len(line)))

\* mutant of ExtractLoop: the loop without the is_valid_question test
RECURSIVE ExtractLoopUnchecked(_, _, _)
ExtractLoopUnchecked(lines, i, acc) ==
    IF i > Len(lines) THEN acc
    ELSE IF NumberPrefixLen(Strip(lines[i])) > 0
         THEN ExtractLoopUnchecked(lines, i + 1,
                                   Append(acc, StripNumberPrefix(Strip(lines[i]))))
         ELSE ExtractLoopUnchecked(lines, i + 1, acc)

\* the for loop over lines, from line i on, with the questions collected so far
RECURSIVE ExtractLoop(_, _, _)
ExtractLoop(lines, i, acc) ==
    IF i > Len(lines) THEN acc
    ELSE LET line == Strip(lines[i])
         IN  IF NumberPrefixLen(line) > 0
             THEN LET question == StripNumberPrefix(line)
                  IN  IF is_valid_question(question)
                      THEN ExtractLoop(lines, i + 1, Append(acc, question))
                      ELSE ExtractLoop(lines, i + 1, acc)
             ELSE ExtractLoop(lines, i + 1, acc)

\* raw_text.strip().split('\n') and the loop
ExtractQuestions(raw_text) == ExtractLoop(Split(Strip(raw_text), "\n"), 1, <<>>)

NumQuestions == 5

\* generate_fallback_questions is called and defined nowhere in the program:
\* evaluating the name raises NameError
generate_fallback_questions(position, experience, tech_stack) ==
    [exc |-> "NameError", value |-> <<>>]

\* the body of the try block: the exception it raises ("none": it returns value)
TryGenerate(position, experience, tech_stack, llm_outcome) ==
    IF llm_outcome.kind = "raise" THEN [exc |-> "LlmError", value |-> <<>>]
    ELSE LET found == ExtractQuestions(llm_outcome.text)
             chosen == IF Len(found) < NumQuestions
                       THEN generate_fallback_questions(position, experience, tech_stack)
                       ELSE [exc |-> "none", value |-> found]
         IN  IF chosen.exc # "none" THEN chosen
             ELSE [exc |-> "none", value |-> Take(chosen.value, NumQuestions)]

\* an entry of the error displays: st.error(...) or an exception no handler caught
StError(exc) == [kind |-> "st.error", exc |-> exc, line |-> 162]

Uncaught(exc, line) == [kind |-> "uncaught", exc |-> exc, line |-> line]

\* mutant of generate_interview_questions: the handler catches the model's error only
generate_interview_questions_narrow(position, experience, tech_stack, llm_outcome) ==
    LET body == TryGenerate(position, experience, tech_stack, llm_outcome)
    IN  IF body.exc = "none"
        THEN [result |-> PyList(body.value), shown |-> <<>>, raised |-> "none"]
        ELSE IF body.exc = "LlmError"
        THEN [result |-> PyNone, shown |-> <<StError(body.exc)>>, raised |-> "none"]
        ELSE [result |-> PyNone, shown |-> <<>>, raised |-> body.exc]

\* try/except Exception: result is the return value, shown the st.error displays,
\* raised the exception that leaves the function ("none": it returns)
generate_interview_questions(position, experience, tech_stack, llm_outcome) ==
    LET body == TryGenerate(position, experience, tech_stack, llm_outcome)
    IN  IF body.exc = "none"
        THEN [result |-> PyList(body.value), shown |-> <<>>, raised |-> "none"]
        ELSE [result |-> PyNone, shown |-> <<StError(body.exc)>>, raised |-> "none"]

(***************************************************************************)
(* Session state and messages.                                             *)
(***************************************************************************)
\* the keys of st.session_state.candidate, in the order the handler tests them
FieldOrder == <<"Full Name", "Email", "Phone", "Experience",
                "Desired Position", "Location", "Tech Stack">>

Fields == {FieldOrder[i] : i \in 1..Len(FieldOrder)}

\* mutant of Put: the dict is replaced by one that holds the new key only
PutAlone(dict, key, value) == [k \in {key} |-> value]

\* candidate[key] = value
Put(dict, key, value) ==
    [k \in (DOMAIN dict) \cup {key} |-> IF k = key THEN value ELSE dict[k]]

\* mutant of add_message: the message is inserted at the front
add_message_front(log, role, content) == <<[role |-> role, content |-> content]>> \o log

\* st.session_state.messages.append({"role": role, "content": content})
add_message(log, role, content) == Append(log, [role |-> role, content |-> content])

\* a message text: the literal or f-string template and the values formatted into it
Text(fmt) == [fmt |-> fmt, args |-> <<>>]

UserText(user_input) == [fmt |-> "{user_input}", args |-> <<user_input>>]

\* a variant that numbers the prompt by the index of the question
QuestionPromptByIndex(next_q, question) ==
    [fmt |-> "**Question {next_q}:** {question}", args |-> <<IntToStr(next_q - 1), question>>]

QuestionPrompt(next_q, question) ==
    [fmt |-> "**Question {next_q}:** {question}", args |-> <<IntToStr(next_q), question>>]

Greeting == Text("Hello, welcome to your technical interview! What's your full name?")

AskEmail == Text("Great! What's your email?")

InvalidName == Text("Invalid name. Please enter again (letters and spaces only).")

AskPhone == Text("Got it. Please share your phone number (9 digits).")

InvalidEmail == Text("Invalid email format. Try again.")

AskExperience == Text("Thanks! How many years of experience do you have?")

InvalidPhone == Text("Invalid phone number. Must be 9 digits.")

AskPosition == Text("Perfect. What position are you applying for?")

InvalidExperience == Text("Enter a valid number between 0 and 50.")

AskLocation == Text("Nice! Where are you currently located?")

AskTechStack == Text("Great! Finally, please list your tech stack (comma-separated).")

Thanks == Text("Thanks for the details! Let's start your technical interview.")

Conclusion == Text("That concludes the interview. Thank you for your time!")

\* f"{v}" of a candidate value: Experience is stored as an int
FormatValue(key, value) == IF key = "Experience" THEN IntToStr(value) ELSE value

\* zip(questions, answers)
Zip(qs, as) ==
    [i \in 1..(IF Len(qs) < Len(as) THEN Len(qs) ELSE Len(as)) |-> [q |-> qs[i], a |-> as[i]]]

RECURSIVE Flatten(_)
Flatten(pairs) ==
    IF pairs = <<>> THEN <<>> ELSE <<Head(pairs).q, Head(pairs).a>> \o Flatten(Tail(pairs))

\* the summary: one line per candidate item, then Q and Answer per zipped pair
Summary(cand, qs, as) ==
    LET keys == SelectSeq(FieldOrder, LAMBDA k : k \in DOMAIN cand)
    IN  [fmt |-> "### Interview Summary",
         args |-> [i \in 1..Len(keys) |-> FormatValue(keys[i], cand[keys[i]])]
                  \o Flatten(Zip(qs, as))]

\* the rejection messages of the four validated fields
RejectionTexts == {InvalidName, InvalidEmail, InvalidPhone, InvalidExperience}

Rejections(log) == Cardinality({i \in 1..Len(log) : log[i].content \in RejectionTexts})

(***************************************************************************)
(* Excel export: the file interview_database.xlsx, one row per record.     *)
(* The Interview_Date and Interview_Time columns are the clock's and are   *)
(* left out of the row.                                                    *)
(***************************************************************************)
\* mutant of append_to_excel: the row is built before the last answer is in it
append_to_excel_short(file, cand, qs, as) ==
    LET record == [fields |-> cand, qa |-> Zip(qs, SubSeq(as, 1, Len(as) - 1))]
    IN  IF file.exists
        THEN [exists |-> TRUE, rows |-> Append(file.rows, record)]
        ELSE [exists |-> TRUE, rows |-> <<record>>]

append_to_excel(file, cand, qs, as) ==
    LET record == [fields |-> cand, qa |-> Zip(qs, as)]
    IN  IF file.exists
        THEN [exists |-> TRUE, rows |-> Append(file.rows, record)]
        ELSE [exists |-> TRUE, rows |-> <<record>>]

NoFile == [exists |-> FALSE, rows |-> <<>>]

(***************************************************************************)
(* The chat input handler, one action per branch of its if/elif chain.     *)
(* Every action is one script run on a non-empty user_input: it starts     *)
(* with add_message("user", user_input).  An exception no handler catches  *)
(* ends the script run where it is raised; what the run has already        *)
(* written to the session state stays.                                     *)
(***************************************************************************)
\* mutant of Branch: the Phone test stands before the Email test
BranchPhoneFirst(cand) ==
    LET order == <<"Full Name", "Phone", "Email", "Experience",
                   "Desired Position", "Location", "Tech Stack">>
        missing == {i \in 1..Len(order) : order[i] \notin DOMAIN cand}
    IN  IF missing = {} THEN "Interview" ELSE order[SetMin(missing)]

\* a variant whose last test names a key that is never stored
BranchMisspelt(cand) ==
    LET order == <<"Full Name", "Email", "Phone", "Experience",
                   "Desired Position", "Location", "TechStack">>
        missing == {i \in 1..Len(order) : order[i] \notin DOMAIN cand}
    IN  IF missing = {} THEN "Interview" ELSE FieldOrder[SetMin(missing)]

\* the branch of the if/elif chain: the first key not in candidate, else the interview
Branch(cand) ==
    LET missing == {i \in 1..Len(FieldOrder) : FieldOrder[i] \notin DOMAIN cand}
    IN  IF missing = {} THEN "Interview" ELSE FieldOrder[SetMin(missing)]

\* if user_input: ... with the bound on the length of the log
Submitted(user_input) == user_input # <<>> /\ Len(messages) < MaxMessages

\* a validated field: store the value and ask for the next, or reject and ask again
\* a variant that stores the input it refuses
ValidatedTurnStoring(user_input, key, valid, value, ask, invalid) ==
    /\ Submitted(user_input)
    /\ Branch(candidate) = key
    /\ LET log == add_message(messages, "user", UserText(user_input))
       IN  IF valid
           THEN /\ candidate' = Put(candidate, key, value)
                /\ messages' = add_message(log, "assistant", ask)
           ELSE /\ Rejections(messages) < MaxRejects
                /\ candidate' = Put(candidate, key, user_input)
                /\ messages' = add_message(log, "assistant", invalid)
    /\ UNCHANGED <<questions, answers, q_index, errors, excel, llm_calls>>

ValidatedTurn(user_input, key, valid, value, ask, invalid) ==
    /\ Submitted(user_input)
    /\ Branch(candidate) = key
    /\ LET log == add_message(messages, "user", UserText(user_input))
       IN  IF valid
           THEN /\ candidate' = Put(candidate, key, value)
                /\ messages' = add_message(log, "assistant", ask)
           ELSE /\ Rejections(messages) < MaxRejects
                /\ candidate' = candidate
                /\ messages' = add_message(log, "assistant", invalid)
    /\ UNCHANGED <<questions, answers, q_index, errors, excel, llm_calls>>

\* a free field: store the input as it is and ask for the next
FreeTurn(user_input, key, ask) ==
    /\ Submitted(user_input)
    /\ Branch(candidate) = key
    /\ candidate' = Put(candidate, key, user_input)
    /\ messages' = add_message(add_message(messages, "user", UserText(user_input)),
                               "assistant", ask)
    /\ UNCHANGED <<questions, answers, q_index, errors, excel, llm_calls>>

NameTurn(user_input) ==
    ValidatedTurn(user_input, "Full Name", valid_name(user_input), user_input,
                  AskEmail, InvalidName)

EmailTurn(user_input) ==
    ValidatedTurn(user_input, "Email", valid_email(user_input), user_input,
                  AskPhone, InvalidEmail)

PhoneTurn(user_input) ==
    ValidatedTurn(user_input, "Phone", valid_phone(user_input), user_input,
                  AskExperience, InvalidPhone)

ExperienceTurn(user_input) ==
    ValidatedTurn(user_input, "Experience", valid_experience(user_input),
                  IF valid_experience(user_input) THEN IntValue(user_input) ELSE 0,
                  AskPosition, InvalidExperience)

PositionTurn(user_input) == FreeTurn(user_input, "Desired Position", AskLocation)

LocationTurn(user_input) == FreeTurn(user_input, "Location", AskTechStack)

\* the Tech Stack branch: the field is stored, then the questions are generated;
\* the model's outcome is any of llm_outcomes
TechStackTurn(user_input, llm_outcomes) ==
    /\ Submitted(user_input)
    /\ Branch(candidate) = "Tech Stack"
    /\ \E llm_outcome \in llm_outcomes :
       LET log == add_message(messages, "user", UserText(user_input))
           cand == Put(candidate, "Tech Stack", user_input)
           position == cand["Desired Position"]
           experience == cand["Experience"]
           thanked == add_message(log, "assistant", Thanks)
       IN  /\ candidate' = cand
           /\ llm_calls' = Append(llm_calls, [position |-> position, experience |-> experience,
                                              tech_stack |-> user_input, outcome |-> llm_outcome])
           /\ \E got \in {generate_interview_questions(position, experience, user_input,
                                                       llm_outcome)} :
              IF got.raised # "none"
              THEN \* the call at line 220 raises: lines 225-229 are not reached
                   /\ errors' = errors \o got.shown \o <<Uncaught(got.raised, 220)>>
                   /\ messages' = log
                   /\ UNCHANGED <<questions, q_index>>
              ELSE /\ questions' = got.result
                   /\ q_index' = 0
                   /\ IF got.result.isNone
                      THEN \* None[0] at line 229
                           /\ errors' = errors \o got.shown \o <<Uncaught("TypeError", 229)>>
                           /\ messages' = thanked
                      ELSE IF got.result.items = <<>>
                      THEN \* [][0] at line 229
                           /\ errors' = errors \o got.shown \o <<Uncaught("IndexError", 229)>>
                           /\ messages' = thanked
                      ELSE /\ errors' = errors \o got.shown
                           /\ messages' = add_message(thanked, "assistant",
                                              QuestionPrompt(1, got.result.items[1]))
    /\ UNCHANGED <<answers, excel>>

\* mutant of answers_append: the answer is inserted at the front
answers_insert_front(list, user_input) == <<user_input>> \o list

\* a variant that extends the list by the characters of the answer
answers_extend(list, user_input) == list \o user_input

\* st.session_state.answers.append(user_input)
answers_append(list, user_input) == Append(list, user_input)

\* a variant that also takes the index just past the last question
HasQuestionOrPast(idx, list) == idx <= Len(list)

\* idx < len(st.session_state.questions)
HasQuestion(idx, list) == idx < Len(list)

\* the interview branch
InterviewTurn(user_input) ==
    /\ Submitted(user_input)
    /\ Branch(candidate) = "Interview"
    /\ LET log == add_message(messages, "user", UserText(user_input))
           idx == q_index
       IN  IF questions.isNone
           THEN \* len(None) at line 234
                /\ Len(errors) < MaxErrors
                /\ errors' = Append(errors, Uncaught("TypeError", 234))
                /\ messages' = log
                /\ UNCHANGED <<answers, q_index, excel>>
           ELSE IF HasQuestion(idx, questions.items)
           THEN /\ answers' = answers_append(answers, user_input)
                /\ q_index' = q_index + 1
                /\ errors' = errors
                /\ IF q_index' < Len(questions.items)
                   THEN LET next_q == q_index' + 1
                        IN  /\ messages' = add_message(log, "assistant",
                                   QuestionPrompt(next_q, questions.items[q_index' + 1]))
                            /\ excel' = excel
                   ELSE /\ messages' = add_message(
                                add_message(log, "assistant", Conclusion),
                                "assistant", Summary(candidate, questions.items, answers'))
                        /\ excel' = append_to_excel(excel, candidate, questions.items, answers')
           ELSE /\ messages' = log
                /\ UNCHANGED <<answers, q_index, errors, excel>>
    /\ UNCHANGED <<candidate, questions, llm_calls>>

(***************************************************************************)
(* Inputs.                                                                 *)
(***************************************************************************)
\* "Al": a valid name
NameInput == <<"A", "l">>

\* "a@b.c": a valid email
EmailInput == <<"a", "@", "b", ".", "c">>

\* "000000012": a valid phone number, and a valid experience (int gives 12)
NumberInput == <<"0", "0", "0", "0", "0", "0", "0", "1", "2">>

\* what st.chat_input returns; the empty string stands for no submission
Inputs == {NameInput, EmailInput, NumberInput, <<>>}

\* a well-formed question that starts with the word c
Question(c) == <<c, " ", "b", "y", " ", "c", " ", "d", "e", "f", "?">>

\* "n. question"
Numbered(n, question) == IntToStr(n) \o <<".", " ">> \o question

\* "3. why?": numbered, and not a valid question
ShortLine == <<"3", ".", " ", "w", "h", "y", "?">>

RECURSIVE JoinLines(_)
JoinLines(lines) ==
    IF lines = <<>> THEN <<>>
    ELSE IF Len(lines) = 1 THEN lines[1]
    ELSE lines[1] \o <<"\n">> \o JoinLines(Tail(lines))

TextOutcome(text) == [kind |-> "text", text |-> text]

RaiseOutcome == [kind |-> "raise", text |-> <<>>]

\* six valid numbered lines among eight, after a blank first line
GoodText ==
    JoinLines(<< <<" ">>, Numbered(1, Question("a")), Question("x"), Numbered(2, Question("b")),
                 ShortLine, Numbered(4, Question("c")), <<" ", " ">> \o Numbered(5, Question("d")),
                 Numbered(6, Question("e")) \o <<" ", "\r">>, Numbered(7, Question("f")) >>)

\* three valid numbered lines
ShortText ==
    JoinLines(<< Numbered(1, Question("a")), Numbered(2, Question("b")),
                 Numbered(3, Question("c")) >>)

Outcomes == {RaiseOutcome, TextOutcome(GoodText), TextOutcome(ShortText)}

(***************************************************************************)
(* The session.                                                            *)
(***************************************************************************)
\* a row an earlier session left in the file
PriorRow ==
    [fields |-> [k \in Fields |-> IF k = "Experience" THEN 12
                                  ELSE IF k = "Email" THEN EmailInput
                                  ELSE IF k = "Phone" THEN NumberInput ELSE NameInput],
     qa |-> [i \in 1..NumQuestions |->
                [q |-> Question(<<"a", "b", "c", "d", "e">>[i]), a |-> NameInput]]]

\* the state after the first script run: the greeting is in the log
Init ==
    /\ candidate = <<>>
    /\ questions = PyList(<<>>)
    /\ answers = <<>>
    /\ q_index = 0
    /\ messages = add_message(<<>>, "assistant", Greeting)
    /\ errors = <<>>
    /\ excel = NoFile
    /\ llm_calls = <<>>

Next ==
    \/ \E user_input \in Inputs : NameTurn(user_input)
    \/ \E user_input \in Inputs : EmailTurn(user_input)
    \/ \E user_input \in Inputs : PhoneTurn(user_input)
    \/ \E user_input \in Inputs : ExperienceTurn(user_input)
    \/ \E user_input \in Inputs : PositionTurn(user_input)
    \/ \E user_input \in Inputs : LocationTurn(user_input)
    \/ \E user_input \in Inputs : TechStackTurn(user_input, Outcomes)
    \/ \E user_input \in Inputs : InterviewTurn(user_input)

Spec == Init /\ [][Next]_vars

(***************************************************************************)
(* The extraction specification: the session from the state in which the   *)
(* handler asks for the tech stack, with the raw completion drawn from     *)
(* every text of at most MaxLines lines of LineKinds and from the          *)
(* completions of the session, and with the file already holding a row.    *)
(***************************************************************************)
\* "12.question": a prefix of two digits, with nothing after the period
TightLine == <<"1", "2", ".">> \o Question("b")

\* a numbered valid line, another, a numbered line that is no valid question,
\* and a valid question without a number
LineKinds == {Numbered(1, Question("a")), TightLine, ShortLine, Question("x")}

Completions ==
    {JoinLines(ls) : ls \in UNION {[1..n -> LineKinds] : n \in 0..MaxLines}}

GenOutcomes == Outcomes \cup {TextOutcome(text) : text \in Completions}

GenInputs == {NameInput, <<>>}

\* the log after six accepted inputs
AskedTechStack ==
    LET turn(log, user_input, ask) ==
            add_message(add_message(log, "user", UserText(user_input)), "assistant", ask)
    IN  turn(turn(turn(turn(turn(turn(add_message(<<>>, "assistant", Greeting),
            NameInput, AskEmail), EmailInput, AskPhone), NumberInput, AskExperience),
            NumberInput, AskPosition), NameInput, AskLocation), NameInput, AskTechStack)

InitGen ==
    /\ candidate = [k \in Fields \ {"Tech Stack"} |-> PriorRow.fields[k]]
    /\ questions = PyList(<<>>)
    /\ answers = <<>>
    /\ q_index = 0
    /\ messages = AskedTechStack
    /\ errors = <<>>
    /\ excel = [exists |-> TRUE, rows |-> <<PriorRow>>]
    /\ llm_calls = <<>>

NextGen ==
    \/ \E user_input \in GenInputs : TechStackTurn(user_input, GenOutcomes)
    \/ \E user_input \in GenInputs : InterviewTurn(user_input)

SpecGen == InitGen /\ [][NextGen]_vars

(***************************************************************************)
(* The validation specification: the four validated branches of the        *)
(* handler from the initial state, with the input drawn from strings that  *)
(* exercise each validator on both sides of each of its conditions.        *)
(***************************************************************************)
\* "J": one letter
OneLetter == <<"J">>

\* " A": one letter after a space
SpacedLetter == <<" ", "A">>

\* "A l": letters around a space
TwoNames == <<"A", " ", "l">>

\* "  ": only spaces
OnlySpaces == <<" ", " ">>

\* "Al3": letters and a digit
NameWithDigit == <<"A", "l", "3">>

\* "A-l": letters and another character
NameWithHyphen == <<"A", "-", "l">>

\* "Al\n": a valid name and a newline
NameNewline == NameInput \o <<"\n">>

\* "12345678": eight digits
EightDigits == <<"1", "2", "3", "4", "5", "6", "7", "8">>

\* "123456789"
NineDigits == EightDigits \o <<"9">>

\* "1234567890"
TenDigits == NineDigits \o <<"0">>

\* "1234-5678": digits around a separator, nine characters
SeparatedDigits == <<"1", "2", "3", "4", "-", "5", "6", "7", "8">>

\* "123456789x": nine digits and a trailing character
NineDigitsTrailing == NineDigits \o <<"x">>

\* "123456789\n": nine digits and a newline
NineDigitsNewline == NineDigits \o <<"\n">>

\* eight ASCII digits and ARABIC-INDIC DIGIT THREE
NineUnicodeDigits == EightDigits \o <<ArabicIndicThree>>

\* texts given for the experience: "0", "50", "51", "-1", " 7 ", "+5", "1_0", "3.5"
ExperienceInputs ==
    { <<"0">>, <<"5", "0">>, <<"5", "1">>, <<"-", "1">>, <<" ", "7", " ">>,
      <<"+", "5">>, <<"1", "_", "0">>, <<"3", ".", "5">>, <<ArabicIndicThree>> }

ValidatorInputs ==
    { NameInput, OneLetter, SpacedLetter, TwoNames, OnlySpaces, NameWithDigit,
      NameWithHyphen, NameNewline, EmailInput, EightDigits,
      NineDigits, TenDigits, SeparatedDigits, NineDigitsTrailing, NineDigitsNewline,
      NineUnicodeDigits, <<>> } \cup ExperienceInputs

NextValid ==
    \/ \E user_input \in ValidatorInputs : NameTurn(user_input)
    \/ \E user_input \in ValidatorInputs : EmailTurn(user_input)
    \/ \E user_input \in ValidatorInputs : PhoneTurn(user_input)
    \/ \E user_input \in ValidatorInputs : ExperienceTurn(user_input)

SpecValid == Init /\ [][NextValid]_vars

(***************************************************************************)
(* The question quality specification: the session from the state in which *)
(* the handler asks for the tech stack, with a completion of four valid    *)
(* numbered lines and a fifth numbered line whose remainder is drawn from  *)
(* strings on both sides of each condition of is_valid_question.           *)
(***************************************************************************)
QuestionProbes ==
    { Question("a"),                                          \* "a by c def?"
      <<"a", " ", "b", " ", "c", " ", "d", "e", "f", "?">>,   \* 10 characters
      <<"a", " ", "b", " ", "c", " ", "d", "e", "?">>,        \* 9 characters, 4 words
      <<"a", " ", "b", "y", " ", "c", " ", "d", "e", "f", "g">>,  \* no "?"
      <<"a", " ", "b", "?", " ", "c", " ", "d", "e", "f", "g">>,  \* "?" inside
      <<"a", "b", " ", "c", "d", " ", "e", "f", "g", "h", "i", "?">>,  \* 3 words
      <<"a", "b", "c", "d", "e", "f", "g", "h", "i", "j", "?">>,       \* 1 word
      <<"a", "\t", "b", "\t", "c", "\t", "d", "e", "f", "g", "?">>,    \* tabs between
      <<"a", "b", "c", " ", "d", "e", "f", "g", " ", "h", " ", "?">>,  \* "?" as a word
      <<"a", " ", "b", " ", "c", " ", "d", "e", "?", " ", " ">>,  \* 9 characters, padded
      <<"a", " ", "b", " ", "c", " ", "d", "e", "f", "?", " ">>,  \* 10 characters, padded
      <<"w", "h", "y", "?">>,                                 \* short, 1 word
      <<"a", " ", "b", " ", "c", "d", "e", "f", "g">> }       \* 3 words, no "?"

\* four valid numbered lines, and the probe as the fifth
ProbeText(probe) ==
    JoinLines(<< Numbered(1, Question("a")), Numbered(2, Question("b")),
                 Numbered(3, Question("c")), Numbered(4, Question("d")),
                 Numbered(5, probe) >>)

QuestionOutcomes == {TextOutcome(ProbeText(probe)) : probe \in QuestionProbes}

QuestionInputs == {NameInput, EmailInput, <<>>}

NextQuestion ==
    \/ \E user_input \in QuestionInputs : TechStackTurn(user_input, QuestionOutcomes)
    \/ \E user_input \in QuestionInputs : InterviewTurn(user_input)

SpecQuestion == InitGen /\ [][NextQuestion]_vars

\* the same session with a user who answers as long as the chat input takes an answer
SpecAnswering ==
    SpecQuestion /\ WF_vars(\E user_input \in QuestionInputs : InterviewTurn(user_input))

(***************************************************************************)
(* What the claims speak of.                                               *)
(***************************************************************************)
\* the remainder of a line after its numeric prefix
Remainder(line) == StripNumberPrefix(Strip(line))

\* a numbered line whose remainder passes is_valid_question
NumberedValidLine(line) ==
    NumberPrefixLen(Strip(line)) > 0 /\ is_valid_question(Remainder(line))

\* the remainders of the numbered valid lines of a completion, in their order
AcceptedRemainders(text) ==
    LET kept == SelectSeq(Split(Strip(text), "\n"), NumberedValidLine)
    IN  [i \in 1..Len(kept) |-> Remainder(kept[i])]

UserMessages(log) == Cardinality({m \in 1..Len(log) : log[m].role = "user"})

\* the state at the end of the turn that called generate_interview_questions:
\* every input so far was refused or stored in the field it was given for
JustGenerated ==
    /\ llm_calls # <<>>
    /\ UserMessages(messages) = Len(FieldOrder) + Rejections(messages)

LastOutcome == llm_calls[Len(llm_calls)].outcome

IsQuestionPrompt(message, n) ==
    /\ message.role = "assistant"
    /\ message.content.fmt = QuestionPrompt(n, <<>>).fmt
    /\ message.content.args[1] = IntToStr(n)

HasUncaught == \E k \in 1..Len(errors) : errors[k].kind = "uncaught"

(***************************************************************************)
(* C1: whenever the raw completion yields fewer than 5 numbered lines that *)
(* pass is_valid_question, generate_interview_questions returns exactly 5  *)
(* non-empty strings, each ending in "?".  The code contradicts it: the    *)
(* fallback function does not exist, and the function returns None.        *)
(***************************************************************************)
C1_FallbackGivesFive ==
    (JustGenerated /\ LastOutcome.kind = "text"
        /\ Len(AcceptedRemainders(LastOutcome.text)) < NumQuestions)
    => /\ ~questions.isNone
       /\ Len(questions.items) = NumQuestions
       /\ \A j \in 1..Len(questions.items) :
             LET q == questions.items[j] IN q # <<>> /\ q[Len(q)] = "?"

(***************************************************************************)
(* C2: when generate_interview_questions yields no result on the Tech      *)
(* Stack turn, the turn and every later turn end without an unhandled      *)
(* error and no "Question 1" prompt is emitted.  The code contradicts it:  *)
(* line 229 subscripts None, and line 234 takes len(None) on later turns.  *)
(***************************************************************************)
C2_NoResultHalts ==
    questions.isNone
    => /\ ~HasUncaught
       /\ \A m \in 1..Len(messages) : ~IsQuestionPrompt(messages[m], 1)

(***************************************************************************)
(* C3: an exception raised inside generate_interview_questions, by the     *)
(* model invocation or by the processing of its output, is caught inside   *)
(* the function and shown with st.error, and the function returns None: it *)
(* does not leave the function (no uncaught exception at the call, line    *)
(* 220) and no list is returned.                                           *)
(***************************************************************************)
\* the exception raised inside the try block for an outcome ("none": none)
RaisedInside(outcome) ==
    IF outcome.kind = "raise" THEN "LlmError"
    ELSE IF Len(AcceptedRemainders(outcome.text)) < NumQuestions THEN "NameError"
    ELSE "none"

C3_ExceptionsCaught ==
    JustGenerated =>
        \E exc \in {RaisedInside(LastOutcome)} :
            exc # "none" =>
                /\ questions = PyNone
                /\ \E k \in 1..Len(errors) : errors[k] = StError(exc)
                /\ \A k \in 1..Len(errors) :
                      ~(errors[k].kind = "uncaught" /\ errors[k].line = 220)

C3_Witness ==
    /\ JustGenerated
    /\ LastOutcome.kind = "text"
    /\ LastOutcome.text # <<>>
    /\ questions = PyNone
    /\ \E k \in 1..Len(errors) : errors[k] = StError("NameError")

(***************************************************************************)
(* C4: when the raw completion has at least 5 numbered lines whose         *)
(* remainder passes is_valid_question, the function returns the first 5    *)
(* such remainders, in their order, without the prefix; a returned list    *)
(* never has more than 5 elements and holds only such remainders.          *)
(***************************************************************************)
C4_FirstFiveInOrder ==
    (JustGenerated /\ LastOutcome.kind = "text") =>
        \E accepted \in {AcceptedRemainders(LastOutcome.text)} :
            /\ Len(accepted) >= NumQuestions =>
                  questions = PyList(SubSeq(accepted, 1, NumQuestions))
            /\ ~questions.isNone =>
                  /\ Len(questions.items) <= NumQuestions
                  /\ \A j \in 1..Len(questions.items) :
                        \E k \in 1..Len(accepted) : questions.items[j] = accepted[k]

\* more than 5 accepted lines, a line that is not accepted, and two different questions
C4_Witness ==
    /\ JustGenerated
    /\ LastOutcome.kind = "text"
    /\ ~questions.isNone
    /\ Len(questions.items) = NumQuestions
    /\ questions.items[1] # questions.items[2]
    /\ \E accepted \in {AcceptedRemainders(LastOutcome.text)} :
          /\ Len(accepted) > NumQuestions
          /\ Len(Split(Strip(LastOutcome.text), "\n")) > Len(accepted)

(***************************************************************************)
(* C5: from the initial state, seven inputs that are each valid for their  *)
(* field set all seven candidate fields, and the seventh turn ends with    *)
(* the "Question 1" prompt as its last message, whatever the model         *)
(* returns.  The code contradicts it when the model raises or returns      *)
(* fewer than 5 valid lines: the turn ends at line 229 without the prompt. *)
(***************************************************************************)
TechStackStep == "Tech Stack" \notin DOMAIN candidate /\ "Tech Stack" \in DOMAIN candidate'

C5_SeventhTurnAsksQuestionOne ==
    [][TechStackStep =>
          /\ DOMAIN candidate' = Fields
          /\ IsQuestionPrompt(messages'[Len(messages')], 1)]_vars

(***************************************************************************)
(* C6: in every reachable state the filled candidate fields are a prefix   *)
(* of the order Full Name, Email, Phone, Experience, Desired Position,     *)
(* Location, Tech Stack.                                                   *)
(***************************************************************************)
C6_FieldsArePrefix ==
    \A i \in 1..Len(FieldOrder) :
        FieldOrder[i] \in DOMAIN candidate
        => \A j \in 1..(i - 1) : FieldOrder[j] \in DOMAIN candidate

C6_Witness == DOMAIN candidate = {"Full Name", "Email", "Phone", "Experience"}

(***************************************************************************)
(* C7: the candidate profile starts empty, every turn adds at most one     *)
(* field, and a field that is present is never removed and keeps its       *)
(* value.                                                                  *)
(***************************************************************************)
C7_ProfileGrowsByOne ==
    /\ DOMAIN candidate = {}
    /\ [][/\ DOMAIN candidate \subseteq DOMAIN candidate'
          /\ Cardinality(DOMAIN candidate' \ DOMAIN candidate) <= 1
          /\ \A k \in DOMAIN candidate : candidate'[k] = candidate[k]]_vars

\* all seven fields are stored, a field was refused once, and an answer is recorded
C7_Witness ==
    /\ DOMAIN candidate = Fields
    /\ Rejections(messages) > 0
    /\ answers # <<>>

(***************************************************************************)
(* C8, as amended: at the turn where the interview concludes, answers is   *)
(* as long as questions and answers[i] is the user input that follows the  *)
(* prompt of questions[i] in the log; on every turn the answers list is    *)
(* only extended at its end, and the questions list is unchanged on every  *)
(* turn but the Tech Stack turn, which assigns it.                         *)
(***************************************************************************)
IsPrefix(s, t) == Len(s) <= Len(t) /\ SubSeq(t, 1, Len(s)) = s

\* the step appends the conclusion message
ConcludingStep ==
    \E m \in (Len(messages) + 1)..Len(messages') :
        messages'[m] = [role |-> "assistant", content |-> Conclusion]

\* in log, the prompt of question number i is followed by the user message answer
AnsweredInLog(log, i, question, answer) ==
    \E p \in 1..(Len(log) - 1) :
        /\ log[p] = [role |-> "assistant", content |-> QuestionPrompt(i, question)]
        /\ log[p + 1] = [role |-> "user", content |-> UserText(answer)]

ParallelAtConclusion ==
    ConcludingStep =>
        /\ ~questions'.isNone
        /\ Len(answers') = Len(questions'.items)
        /\ \A i \in 1..Len(answers') :
              AnsweredInLog(messages', i, questions'.items[i], answers'[i])

C8_ListsParallelAndStable ==
    [][/\ ParallelAtConclusion
       /\ IsPrefix(answers, answers')
       /\ (questions' # questions => TechStackStep)]_vars

\* C8 as stated: the questions list is unchanged on every turn
C8_Original ==
    [][/\ ParallelAtConclusion
       /\ IsPrefix(answers, answers')
       /\ questions' = questions]_vars

\* the interview has concluded with answers that differ, and a later turn was taken
C8_Witness ==
    /\ ~questions.isNone
    /\ Len(answers) = NumQuestions
    /\ Len(questions.items) = NumQuestions
    /\ answers[1] # answers[2]
    /\ messages[Len(messages)].role = "user"

(***************************************************************************)
(* C9: append_to_excel is called on the turn that records the answer to    *)
(* the last question and on no other turn; the session writes at most one  *)
(* row, and the row holds the seven candidate fields and a question and    *)
(* answer pair for every question.  The file does not exist when the       *)
(* session starts, so a file that exists was written by this session and   *)
(* is never written again.                                                 *)
(***************************************************************************)
LastAnswerStep ==
    /\ ~questions.isNone
    /\ Len(answers') = Len(answers) + 1
    /\ Len(answers') = Len(questions.items)

C9_RowWrittenOnceAtEnd ==
    [][/\ (excel' # excel) <=> LastAnswerStep
       /\ excel.exists => excel' = excel
       /\ (excel' # excel) =>
             /\ excel'.exists
             /\ Len(excel'.rows) = 1
             /\ excel'.rows[1].fields = candidate'
             /\ DOMAIN excel'.rows[1].fields = Fields
             /\ Len(excel'.rows[1].qa) = Len(questions'.items)
             /\ \A i \in 1..Len(questions'.items) :
                   excel'.rows[1].qa[i] = [q |-> questions'.items[i], a |-> answers'[i]]]_vars

C9_Witness ==
    /\ Len(excel.rows) = 1
    /\ Len(excel.rows[1].qa) = NumQuestions
    /\ messages[Len(messages)].role = "user"

(***************************************************************************)
(* C10: the message log is append-only: on every step the previous log is  *)
(* a prefix of the new one, and a turn appends exactly one user message,   *)
(* before any assistant message of that turn.                              *)
(***************************************************************************)
C10_LogAppendOnly ==
    [][/\ IsPrefix(messages, messages')
       /\ Len(messages') > Len(messages)
       /\ messages'[Len(messages) + 1].role = "user"
       /\ \A m \in (Len(messages) + 2)..Len(messages') :
             messages'[m].role = "assistant"]_vars

\* a turn with two assistant replies was taken, after a turn with one
C10_Witness ==
    /\ Len(messages) >= 6
    /\ messages[Len(messages) - 2].role = "user"
    /\ messages[Len(messages) - 1].role = "assistant"
    /\ messages[Len(messages)].role = "assistant"

(***************************************************************************)
(* The validators, seen at the branch that applies them.                   *)
(***************************************************************************)
\* the step is a turn taken while the handler waits for the field key
TurnFor(key) == Branch(candidate) = key /\ messages' # messages

\* the text the user submitted on the step
SubmittedText == messages'[Len(messages) + 1].content.args[1]

\* the step stored the field key: its validator accepted the input
Accepted(key) == key \notin DOMAIN candidate /\ key \in DOMAIN candidate'

IsAsciiDigit(c) == \E i \in 1..10 : AsciiDigits[i] = c

IsAsciiLetter(c) == c \in UpperCase \/ c \in LowerCase

(***************************************************************************)
(* C11: the phone validator accepts a string if and only if it is exactly  *)
(* 9 ASCII digits with nothing else.  The code contradicts it: "$" matches *)
(* before a final newline and \d matches every Unicode decimal digit.      *)
(***************************************************************************)
C11_PhoneIsNineAsciiDigits ==
    [][TurnFor("Phone") =>
          (Accepted("Phone") <=>
              /\ Len(SubmittedText) = 9
              /\ \A i \in 1..Len(SubmittedText) : IsAsciiDigit(SubmittedText[i]))]_vars

(***************************************************************************)
(* C12: the name validator accepts a string if and only if it consists     *)
(* only of the letters A-Z, a-z and spaces and its trimmed length is       *)
(* greater than 1.  The code contradicts it: "$" matches before a final    *)
(* newline, so a valid name followed by a newline is accepted.             *)
(***************************************************************************)
C12_NameIsLettersAndSpaces ==
    [][TurnFor("Full Name") =>
          (Accepted("Full Name") <=>
              /\ \A i \in 1..Len(SubmittedText) :
                    IsAsciiLetter(SubmittedText[i]) \/ SubmittedText[i] = " "
              /\ Len(Strip(SubmittedText)) > 1)]_vars

(***************************************************************************)
(* C13: is_valid_question accepts a string if and only if all three        *)
(* conditions hold on the trimmed string: length at least 10, last         *)
(* character "?", and at least 4 whitespace-separated words; a string that *)
(* fails one of the three while the other two hold is rejected.  The fifth *)
(* line of the completion is accepted exactly when the list is returned.   *)
(***************************************************************************)
LongEnough(s) == Len(Strip(s)) >= 10

EndsWithMark(s) == Strip(s) # <<>> /\ Strip(s)[Len(Strip(s))] = "?"

FourWords(s) == WordCount(Strip(s)) >= 4

\* the probe of the completion the model returned
ProbeOf(outcome) == CHOOSE probe \in QuestionProbes : outcome = TextOutcome(ProbeText(probe))

C13_QuestionAcceptedIff ==
    llm_calls # <<>> =>
        \E probe \in {ProbeOf(LastOutcome)} :
            /\ ~questions.isNone <=> (LongEnough(probe) /\ EndsWithMark(probe) /\ FourWords(probe))
            /\ ~questions.isNone => questions.items[NumQuestions] = Strip(probe)

\* a probe that fails only the length (9 characters, "?" at the end, 4 words) was rejected
C13_Witness ==
    /\ llm_calls # <<>>
    /\ questions.isNone
    /\ \E probe \in {ProbeOf(LastOutcome)} :
          ~LongEnough(probe) /\ EndsWithMark(probe) /\ FourWords(probe)

(***************************************************************************)
(* C14: in every reachable state where the Experience field is present,    *)
(* its value is an integer between 0 and 50; an input that is not an       *)
(* integer, or that lies outside 0..50, never sets the field.  The integer *)
(* of an input is the one int() reads (IntegerRead).                       *)
(***************************************************************************)
\* what int() gives for the inputs of the validation specification; it raises
\* ValueError for the inputs that are not listed
IntegerRead ==
    { <<EightDigits, 12345678>>, <<NineDigits, 123456789>>,
      <<TenDigits, 1234567890>>, <<NineDigitsNewline, 123456789>>,
      <<NineUnicodeDigits, 123456783>>,
      << <<"0">>, 0 >>, << <<"5", "0">>, 50 >>, << <<"5", "1">>, 51 >>,
      << <<"-", "1">>, 0 - 1 >>, << <<" ", "7", " ">>, 7 >>, << <<"+", "5">>, 5 >>,
      << <<"1", "_", "0">>, 10 >>, << <<ArabicIndicThree>>, 3 >> }

C14_ExperienceInRange ==
    [][/\ "Experience" \in DOMAIN candidate' =>
             candidate'["Experience"] \in 0..50
       /\ TurnFor("Experience") =>
             /\ Accepted("Experience") <=>
                   \E read \in IntegerRead : read[1] = SubmittedText /\ read[2] \in 0..50
             /\ Accepted("Experience") =>
                   <<SubmittedText, candidate'["Experience"]>> \in IntegerRead]_vars

\* 50 is stored in a session that refused an input for the experience
C14_Witness ==
    /\ "Experience" \in DOMAIN candidate
    /\ candidate["Experience"] = 50
    /\ messages[Len(messages) - 2] = [role |-> "assistant", content |-> InvalidExperience]

(***************************************************************************)
(* C15: when the input for a validated field (Full Name, Email, Phone,     *)
(* Experience) fails its validator, the turn leaves candidate, questions,  *)
(* answers and q_index unchanged and appends exactly two messages, the     *)
(* user input and the error message of that field, so that the next input  *)
(* is validated against the same field.                                    *)
(***************************************************************************)
ValidatedFields == {"Full Name", "Email", "Phone", "Experience"}

FailsValidator(key, text) ==
    IF key = "Full Name" THEN ~valid_name(text)
    ELSE IF key = "Email" THEN ~valid_email(text)
    ELSE IF key = "Phone" THEN ~valid_phone(text)
    ELSE ~valid_experience(text)

ErrorMessage(key) ==
    IF key = "Full Name" THEN InvalidName
    ELSE IF key = "Email" THEN InvalidEmail
    ELSE IF key = "Phone" THEN InvalidPhone
    ELSE InvalidExperience

NumberOfQuestions == IF questions.isNone THEN 0 ELSE Len(questions.items)

C16_IndexCountsAnswers ==
    /\ q_index = Len(answers)
    /\ 0 <= q_index
    /\ q_index <= NumberOfQuestions
    /\ answers # <<>> => DOMAIN candidate = Fields

\* halfway through the interview, with two different answers
C16_Witness ==
    /\ q_index = 2
    /\ q_index < NumberOfQuestions
    /\ Len(answers) = 2
    /\ answers[1] # answers[2]

(***************************************************************************)
(* C17: once the interview has concluded (all seven fields are stored and  *)
(* q_index equals the number of questions), every further user input       *)
(* appends only its own "user" message: candidate, questions, answers and  *)
(* q_index stay unchanged, no assistant message is added, and no           *)
(* spreadsheet row is written.                                             *)
(***************************************************************************)
Concluded ==
    /\ DOMAIN candidate = Fields
    /\ ~questions.isNone
    /\ q_index = Len(questions.items)

C17_ConcludedOnlyEchoes ==
    [][Concluded =>
          /\ candidate' = candidate
          /\ questions' = questions
          /\ answers' = answers
          /\ q_index' = q_index
          /\ excel' = excel
          /\ Len(messages') = Len(messages) + 1
          /\ SubSeq(messages', 1, Len(messages)) = messages
          /\ messages'[Len(messages')].role = "user"]_vars

\* an input was given after the summary
C17_Witness ==
    /\ Concluded
    /\ Len(messages) > 2
    /\ messages[Len(messages)].role = "user"
    /\ messages[Len(messages) - 1] =
          [role |-> "assistant", content |-> Summary(candidate, questions.items, answers)]

(***************************************************************************)
(* C18: the model is invoked at most once per session, only on the turn    *)
(* that sets Tech Stack, with the Desired Position and the Experience      *)
(* already stored and the tech stack just entered; after that turn the     *)
(* questions list is never reassigned and q_index is never reset.          *)
(***************************************************************************)
C18_ModelInvokedOnce ==
    [][/\ Len(llm_calls') <= 1
       /\ llm_calls' # llm_calls =>
             /\ "Tech Stack" \notin DOMAIN candidate
             /\ {"Desired Position", "Experience"} \subseteq DOMAIN candidate
             /\ llm_calls'[1].position = candidate["Desired Position"]
             /\ llm_calls'[1].experience = candidate["Experience"]
             /\ llm_calls'[1].tech_stack = SubmittedText
             /\ candidate' = Put(candidate, "Tech Stack", SubmittedText)
       /\ llm_calls # <<>> =>
             /\ llm_calls' = llm_calls
             /\ questions' = questions
             /\ q_index' >= q_index]_vars

\* the model was invoked, it gave a list, and answers were recorded after that
C18_Witness ==
    /\ Len(llm_calls) = 1
    /\ llm_calls[1].outcome.kind = "text"
    /\ llm_calls[1].tech_stack = candidate["Tech Stack"]
    /\ q_index = 3

(***************************************************************************)
(* C19: once a non-empty questions list is set, the interview always       *)
(* concludes: each user turn of the interview phase records one answer and *)
(* advances q_index by exactly one whatever the answer text is, the turn   *)
(* that records answer k (k < number of questions) emits the prompt        *)
(* "Question k+1" for the question after it, and the turn that records the *)
(* last answer emits the conclusion message followed by the summary.  With *)
(* a user who keeps answering, the conclusion is reached.                  *)
(***************************************************************************)
InterviewPhase ==
    /\ DOMAIN candidate = Fields
    /\ ~questions.isNone
    /\ questions.items # <<>>
    /\ q_index < Len(questions.items)

ConclusionEmitted ==
    /\ ~questions.isNone
    /\ q_index = Len(questions.items)
    /\ Len(answers) = Len(questions.items)
    /\ \E m \in 1..(Len(messages) - 1) :
          /\ messages[m] = [role |-> "assistant", content |-> Conclusion]
          /\ messages[m + 1] =
                [role |-> "assistant", content |-> Summary(candidate, questions.items, answers)]

AnswerStep ==
    (InterviewPhase /\ messages' # messages) =>
        /\ answers' = Append(answers, SubmittedText)
        /\ q_index' = q_index + 1
        /\ questions' = questions
        /\ IF q_index' < Len(questions.items)
           THEN messages' = messages \o
                  << [role |-> "user", content |-> UserText(SubmittedText)],
                     [role |-> "assistant",
                      content |-> [fmt |-> "**Question {next_q}:** {question}",
                                   args |-> <<IntToStr(q_index' + 1),
                                              questions.items[q_index' + 1]>>]] >>
           ELSE messages' = messages \o
                  << [role |-> "user", content |-> UserText(SubmittedText)],
                     [role |-> "assistant", content |-> Conclusion],
                     [role |-> "assistant",
                      content |-> Summary(candidate, questions.items, answers')] >>

C19_InterviewConcludes ==
    /\ [][AnswerStep]_vars
    /\ InterviewPhase ~> ConclusionEmitted

\* the interview concluded with answers that are not all the same text
C19_Witness ==
    /\ ConclusionEmitted
    /\ Len(answers) = NumQuestions
    /\ \E i, j \in 1..Len(answers) : answers[i] # answers[j]

====
